---------------------------- MODULE Spec2Model ----------------------------
(***************************************************************************)
(* bindgen_cuda (src/src/lib.rs): a build-script helper that compiles CUDA *)
(* kernels with nvcc, either to PTX files plus a generated bindings file   *)
(* (Builder::build_ptx, Bindings::write) or to a static library            *)
(* (Builder::build_lib).                                                   *)
(*                                                                         *)
(* Text is a sequence of one-character strings; a literal fragment of a    *)
(* format string is kept as one element.  A file system entry is a path    *)
(* (text) with a last-modified time, 0 meaning that the file is absent.    *)
(***************************************************************************)
EXTENDS Integers, Sequences, FiniteSets, TLC

(***************************************************************************)
(* Bounds of the model                                                     *)
(***************************************************************************)
\* The clock runs from 1 to MaxTime (the resolution of the file times).
MaxTime == 2
\* Number of build-script runs (processes) in one behaviour.
MaxRuns == 2
\* Number of Bindings::write calls on one Bindings value.
MaxWrites == 2
\* Largest value of RAYON_NUM_THREADS that is tried.
MaxThreads == 2
\* Physical and logical core counts of the host.
PhysicalCores == 2
LogicalCores == 3
\* Builder::arg calls on one Builder.
MaxArgs == 2
\* Builders one process may get from Builder::default before the model stops
\* calling it.
MaxBuilders == 2

(***************************************************************************)
(* Text and path helpers (std::path::Path)                                 *)
(***************************************************************************)
SetMax(S) == CHOOSE x \in S : \A y \in S : y <= x

LastIndexOf(s, c) ==
    LET I == {i \in 1..Len(s) : s[i] = c}
    IN  IF I = {} THEN 0 ELSE SetMax(I)

RECURSIVE Flatten(_)
Flatten(ss) == IF ss = <<>> THEN <<>> ELSE Head(ss) \o Flatten(Tail(ss))

\* t occurs in s as a contiguous run.
Contains(s, t) ==
    \E k \in 0..(Len(s) - Len(t)) : SubSeq(s, k + 1, k + Len(t)) = t

EndsWith(s, t) ==
    Len(t) <= Len(s) /\ SubSeq(s, Len(s) - Len(t) + 1, Len(s)) = t

StartsWith(s, t) ==
    Len(t) <= Len(s) /\ SubSeq(s, 1, Len(t)) = t

\* Path::file_name: the last component.
file_name(p) == SubSeq(p, LastIndexOf(p, "/") + 1, Len(p))

\* Path::parent followed by the separator ("" for a bare file name).
ParentPrefix(p) == SubSeq(p, 1, LastIndexOf(p, "/"))

\* Path::file_stem: the file name without its last extension; a name with
\* no '.', or whose only '.' is its first character, is its own stem.
file_stem(p) ==
    LET n == file_name(p)
        d == LastIndexOf(n, ".")
    IN  IF d <= 1 THEN n ELSE SubSeq(n, 1, d - 1)

\* PathBuf::set_extension with a non-empty extension.
set_extension(p, ext) == ParentPrefix(p) \o file_stem(p) \o <<".">> \o ext

\* PathBuf::join with a relative component.
join(dir, name) == dir \o <<"/">> \o name

\* Path::with_file_name.
with_file_name(p, name) == ParentPrefix(p) \o name

LowerChars ==
    <<"a","b","c","d","e","f","g","h","i","j","k","l","m",
      "n","o","p","q","r","s","t","u","v","w","x","y","z">>
UpperChars ==
    <<"A","B","C","D","E","F","G","H","I","J","K","L","M",
      "N","O","P","Q","R","S","T","U","V","W","X","Y","Z">>

\* str::to_uppercase on the characters the model uses.
to_uppercase(s) ==
    [i \in 1..Len(s) |->
        IF \E k \in 1..26 : LowerChars[k] = s[i]
        THEN UpperChars[CHOOSE k \in 1..26 : LowerChars[k] = s[i]]
        ELSE s[i]]

\* str::replace(from, to) for a one-character pattern.
replace(s, from, to) == [i \in 1..Len(s) |-> IF s[i] = from THEN to ELSE s[i]]

\* fmt::Debug of a path or of a command argument: quoted, with '"' and '\'
\* escaped.
Debug(s) ==
    <<"\"">>
    \o Flatten([i \in 1..Len(s) |->
                   IF s[i] \in {"\"", "\\"} THEN <<"\\", s[i]>> ELSE <<s[i]>>])
    \o <<"\"">>

\* String::from_utf8_lossy: a byte that is not valid UTF-8 is replaced by
\* U+FFFD.
InvalidByte == "\\xFF"
ReplacementChar == "U+FFFD"
from_utf8_lossy(bytes) ==
    [i \in 1..Len(bytes) |->
        IF bytes[i] = InvalidByte THEN ReplacementChar ELSE bytes[i]]

(***************************************************************************)
(* The files of the model                                                  *)
(***************************************************************************)
Attention      == <<"s","r","c","/","a","t","t","e","n","t","i","o","n",".","c","u">>
FlashAttention ==
    <<"s","r","c","/","f","l","a","s","h",".","a","t","t","e","n","t","i","o","n",".","c","u">>
AttentionV2    ==
    <<"s","r","c","/","v","2","/","a","t","t","e","n","t","i","o","n",".","c","u">>

\* The kernel sources that exist on disk.
KernelFiles == {Attention, FlashAttention, AttentionV2}

\* OUT_DIR and the archive build_lib is asked for.
OutDir  == <<"o","u","t">>
OutFile == <<"o","u","t","/","l","i","b","k",".","a">>

\* lines 232-234: the PTX file nvcc writes for kernel p.
output_filename(p) ==
    LET output == set_extension(p, <<"p","t","x">>)
    IN  with_file_name(join(OutDir, <<"o","u","t">>), file_name(output))

\* lines 129-130: the object file of kernel p.
obj_file(p) == set_extension(join(OutDir, file_name(p)), <<"o">>)

Files ==
    KernelFiles
    \cup {output_filename(p) : p \in KernelFiles}
    \cup {obj_file(p) : p \in KernelFiles}
    \cup {OutFile}

(***************************************************************************)
(* What a compiler or archiver process can do: its exit status and what it *)
(* wrote to its two streams (bytes).                                       *)
(***************************************************************************)
SyntaxError == <<"s","y","n","t","a","x"," ","e","r","r","o","r">>
Garbled     == <<"b","a","d",InvalidByte>>

Success == [status |-> 0, stdout |-> <<>>, stderr |-> <<>>]
ProcessOutcomes ==
    { Success,
      [status |-> 1, stdout |-> <<>>,     stderr |-> SyntaxError],
      [status |-> 2, stdout |-> Garbled,  stderr |-> <<>>] }

\* Option<...>::None and Some(output) for one slot of 'children'.
None == [some |-> FALSE, status |-> 0, stdout |-> <<>>, stderr |-> <<>>]
Some(o) == [some |-> TRUE, status |-> o.status, stdout |-> o.stdout, stderr |-> o.stderr]

\* RAYON_NUM_THREADS: unset, or set to a number.
EnvUnset == [set |-> FALSE, val |-> 0]
\* RAYON_NUM_THREADS=-1, which is no usize.
EnvInvalid == [set |-> TRUE, val |-> 0 - 1]
RayonEnvs == {EnvUnset} \cup {[set |-> TRUE, val |-> n] : n \in 0..MaxThreads}

\* The kernel lists a build script may pass to Builder::kernel_paths: the
\* existing kernel files, in any order, without repetition.
RECURSIVE Perms(_)
Perms(S) ==
    IF S = {} THEN {<<>>}
    ELSE UNION {{<<x>> \o t : t \in Perms(S \ {x})} : x \in S}
KernelLists == UNION {Perms(S) : S \in SUBSET KernelFiles}

(***************************************************************************)
(* Text parsing (str::parse::<usize>, str::lines, str::split)              *)
(***************************************************************************)
Digits == <<"0","1","2","3","4","5","6","7","8","9">>
DigitVal(c) == (CHOOSE d \in 1..Len(Digits) : Digits[d] = c) - 1

\* Result<usize, _>: Ok(val) or Err.
Ok(n) == [ok |-> TRUE, val |-> n]
Err == [ok |-> FALSE, val |-> 0]

RECURSIVE DecimalValue(_)
DecimalValue(s) ==
    IF s = <<>> THEN 0
    ELSE 10 * DecimalValue(SubSeq(s, 1, Len(s) - 1)) + DigitVal(s[Len(s)])

\* The digits of parse::<usize>, once an optional '+' is taken off: at
\* least one decimal digit and nothing else.
parse_digits(t) ==
    IF t = <<>> \/ \E i \in 1..Len(t) : (\A d \in 1..Len(Digits) : Digits[d] # t[i]) THEN Err ELSE Ok(DecimalValue(t))

\* str::parse::<usize>.
parse_usize(s) == parse_digits(IF s # <<>> /\ s[1] = "+" THEN Tail(s) ELSE s)

\* The position of the first sep in s (0 when there is none).
IndexOf(s, sep) ==
    IF \E i \in 1..Len(s) : s[i] = sep
    THEN CHOOSE i \in 1..Len(s) : s[i] = sep /\ \A j \in 1..(i - 1) : s[j] # sep
    ELSE 0

\* str::split(sep): the pieces between the separators.
RECURSIVE split(_, _)
split(s, sep) ==
    IF IndexOf(s, sep) = 0 THEN <<s>>
    ELSE <<SubSeq(s, 1, IndexOf(s, sep) - 1)>>
         \o split(SubSeq(s, IndexOf(s, sep) + 1, Len(s)), sep)

\* A line without the "\r" that ended it.
strip_cr(l) ==
    IF l # <<>> /\ l[Len(l)] = "\r" THEN SubSeq(l, 1, Len(l) - 1) ELSE l

\* The pieces of a text split at "\n" as lines: a final empty piece is no
\* line.
as_lines(pieces) ==
    [i \in 1..(IF pieces[Len(pieces)] = <<>> THEN Len(pieces) - 1 ELSE Len(pieces)) |->
        strip_cr(pieces[i])]

\* str::lines.
lines(s) == as_lines(split(s, "\n"))

\* str::replace(from, "") for a one-character pattern.
remove(s, c) == SelectSeq(s, LAMBDA x : x # c)

\* Display of a usize.
RECURSIVE ToDecimal(_)
ToDecimal(n) ==
    IF n < 10 THEN <<Digits[n + 1]>> ELSE ToDecimal(n \div 10) \o <<Digits[(n % 10) + 1]>>

\* fmt::Debug of a Vec<usize>.
RECURSIVE DebugItems(_)
DebugItems(v) ==
    IF v = <<>> THEN <<>>
    ELSE IF Len(v) = 1 THEN ToDecimal(v[1])
    ELSE ToDecimal(v[1]) \o <<", ">> \o DebugItems(Tail(v))
DebugVec(v) == <<"[">> \o DebugItems(v) \o <<"]">>

\* The position of a least element of a sequence of numbers.
MinIndex(s) == CHOOSE i \in 1..Len(s) : \A j \in 1..Len(s) : s[i] <= s[j]

\* slice::sort on numbers.
RECURSIVE sort(_)
sort(s) ==
    IF s = <<>> THEN <<>>
    ELSE <<s[MinIndex(s)]>>
         \o sort(SubSeq(s, 1, MinIndex(s) - 1) \o SubSeq(s, MinIndex(s) + 1, Len(s)))

(***************************************************************************)
(* compute_cap (lines 351-415)                                             *)
(***************************************************************************)
\* An environment variable: unset, or set to a text.
Unset == [set |-> FALSE, val |-> <<>>]
Set(text) == [set |-> TRUE, val |-> text]

\* What compute_cap does: it returns Ok(val), or it panics with msg.
Returns(n) == [ok |-> TRUE, val |-> n, msg |-> <<>>]
Panics(m) == [ok |-> FALSE, val |-> 0, msg |-> m]

\* expect(msg) on the result of a parse.
expect(r, msg) == IF r.ok THEN Returns(r.val) ELSE Panics(msg)

\* lines 355-359: CUDA_COMPUTE_CAP is parsed as it is.
cap_from_env(compute_cap_str) ==
    expect(parse_usize(compute_cap_str), <<"Could not parse code">>)

\* lines 368-376: the first line is the header, the second one, its '.'
\* removed, is the capability.
cap_from_lines(ls) ==
    IF Len(ls) < 1 THEN Panics(<<"missing line in stdout">>)
    ELSE IF ls[1] # <<"c","o","m","p","u","t","e","_","c","a","p">>
         THEN Panics(<<"assertion 'left == right' failed">>)
    ELSE IF Len(ls) < 2 THEN Panics(<<"missing line in stdout">>)
    ELSE expect(parse_usize(remove(ls[2], ".")), <<"cannot parse as int {cap}">>)

\* lines 362-376: the capability nvidia-smi reports.
cap_from_smi(out) == cap_from_lines(lines(out))

\* lines 391-395 for the pieces of one line of nvcc --list-gpu-code: a line
\* with a piece "sm" contributes its second piece when that is a number;
\* code[1] of a line without a second piece is out of bounds.
code_of_pieces(code) ==
    IF \E i \in 1..Len(code) : code[i] = <<"s","m">>
    THEN IF Len(code) < 2 THEN [push |-> FALSE, panic |-> TRUE, num |-> 0]
         ELSE [push |-> parse_usize(code[2]).ok, panic |-> FALSE,
               num |-> parse_usize(code[2]).val]
    ELSE [push |-> FALSE, panic |-> FALSE, num |-> 0]

\* The numbers pushed, in the order of the lines.
pushed(cs) == SelectSeq(cs, LAMBDA c : c.push)
numbers(kept) == [i \in 1..Len(kept) |-> kept[i].num]

\* lines 389-397 over the results of the lines.
codes_of(cs) ==
    [panic |-> \E i \in 1..Len(cs) : cs[i].panic, codes |-> sort(numbers(pushed(cs)))]

\* lines 387-397 over the lines of the output (the split of line 391 for
\* each of them).
codes_of_lines(ls) ==
    codes_of([i \in 1..Len(ls) |-> code_of_pieces(split(ls[i], "_"))])

\* lines 380-400: the codes parsed from nvcc's output, sorted.
nvcc_codes(out) == codes_of_lines(lines(out))

\* The check of line 403 left out.
contains_code_any(codes, x) == TRUE

\* line 403: supported_nvcc_codes.contains(&compute_cap).
contains_code(codes, x) == \E i \in 1..Len(codes) : codes[i] = x

\* lines 379-414: the capability is checked against nvcc's codes.
check_cap(cap, nv) ==
    IF ~cap.ok THEN cap
    ELSE IF nv.panic
         THEN Panics(<<"index out of bounds: the len is 1 but the index is 1">>)
    ELSE IF nv.codes = <<>> THEN Panics(<<"no gpu codes parsed from nvcc">>)
    ELSE IF ~contains_code(nv.codes, cap.val)
         THEN Panics(<<"nvcc cannot target gpu arch ">> \o ToDecimal(cap.val)
                     \o <<". Available nvcc targets are ">> \o DebugVec(nv.codes) \o <<".">>)
    ELSE IF cap.val > nv.codes[Len(nv.codes)]
         THEN Panics(<<"CUDA compute cap ">> \o ToDecimal(cap.val)
                     \o <<" is higher than the highest gpu code from nvcc ">>
                     \o ToDecimal(nv.codes[Len(nv.codes)]))
    ELSE Returns(cap.val)

\* lines 355-377: the capability from CUDA_COMPUTE_CAP when it is set, from
\* nvidia-smi otherwise.
resolve_cap(h) ==
    IF h.CUDA_COMPUTE_CAP.set
    THEN cap_from_env(h.CUDA_COMPUTE_CAP.val)
    ELSE cap_from_smi(h.nvidia_smi)

\* lines 351-415.
compute_cap(h) == check_cap(resolve_cap(h), nvcc_codes(h.list_gpu_code))

(***************************************************************************)
(* The host: what Builder::default and the builds read from it             *)
(***************************************************************************)
\* CUDA_COMPUTE_CAP values, nvidia-smi outputs and nvcc --list-gpu-code
\* outputs of the model.
CapPlain  == <<"8","6">>
CapDotted == <<"8",".","6">>
CapLow    == <<"7","5">>
CapHigh   == <<"9","0">>
SmiDotted == <<"c","o","m","p","u","t","e","_","c","a","p","\n","8",".","6","\n">>
SmiPlain  == <<"c","o","m","p","u","t","e","_","c","a","p","\n","8","6","\n">>
SmiHigh   == <<"c","o","m","p","u","t","e","_","c","a","p","\n","9",".","0","\n">>
SmiLow    == <<"c","o","m","p","u","t","e","_","c","a","p","\n","7",".","5","\n">>
SmiNoDevice == <<"N","o"," ","d","e","v","i","c","e","s"," ","w","e","r","e"," ","f","o","u","n","d","\n">>
CodesAmpere   == <<"s","m","_","8","0","\n","s","m","_","8","6","\n">>
CodesUnsorted == <<"s","m","_","9","0","\n","s","m","_","8","0","\n">>
CodesSuffixed == <<"s","m","_","8","6","\n","s","m","_","9","0","a","\n">>
CodesNone     == <<>>

\* lines 328-335: the directories searched for include/cuda.h, in order.
roots == << <<"/","u","s","r">>, <<"/","u","s","r","/","l","o","c","a","l","/","c","u","d","a">> >>

\* The header files on disk, and src/**/*.cuh in the glob's order (lines
\* 61-68).
HeaderA == <<"s","r","c","/","a",".","c","u","h">>
HeaderB == <<"i","n","c","/","b",".","c","u","h">>
HeaderC == <<"i","n","c","/","c",".","c","u","h">>
default_include == <<HeaderA>>

\* The flags a build script passes to Builder::arg.
ExtraArgs == { <<"-","O","3">>, <<"-","g">> }

\* NVCC_CCBIN when it is set.
CcbinPath == <<"/","u","s","r","/","b","i","n","/","g","+","+","-","1","2">>

Host(cap, smi, codes, cuda, ccbin) ==
    [CUDA_COMPUTE_CAP |-> cap, nvidia_smi |-> smi, list_gpu_code |-> codes,
     cuda_h |-> cuda, NVCC_CCBIN |-> ccbin]

\* A machine with one sm_86 device, CUDA under /usr/local/cuda and nothing
\* set in the environment.
DefaultHost == Host(Unset, SmiDotted, CodesAmpere, {roots[2]}, Unset)

\* Option<PathBuf> and Option<usize>.
NoPath == [some |-> FALSE, path |-> <<>>]
SomePath(p) == [some |-> TRUE, path |-> p]
NoCap == [some |-> FALSE, val |-> 0]
SomeCap(n) == [some |-> TRUE, val |-> n]

\* lines 313-349: the first searched directory that holds include/cuda.h.
cuda_include_dir(h) ==
    LET I == {i \in 1..Len(roots) : roots[i] \in h.cuda_h}
    IN  IF I = {} THEN NoPath ELSE SomePath(roots[CHOOSE i \in I : \A j \in I : i <= j])

VARIABLES
    now,           \* the clock the file times are taken from
    mtime,         \* file system: path -> last-modified time, 0 when absent
    dest,          \* the bindings file: [exists, bytes]
    runs,          \* number of build-script processes started so far
    pc,            \* where the running build script is
    rayon_env,     \* RAYON_NUM_THREADS of the running process
    pool,          \* threads of rayon's global pool (0: not initialised)
    kernel_paths,  \* Builder.kernel_paths
    closure,       \* per kernel: "todo", "running" (nvcc spawned), "done", "panicked"
    children,      \* per kernel: what its closure returned
    obs,           \* per kernel: how output and source times compared when looked at
    spawnCount,    \* per kernel: nvcc processes spawned for it in this run
    bindings,      \* the Bindings build_ptx returned: [some, write, paths]
    writes,        \* Bindings::write calls made on it
    panicLog,      \* the panic messages of this run, in the order raised
    archSpawned,   \* archiver (nvcc --lib) processes spawned in this run
    host,          \* the machine: environment, nvidia-smi, nvcc, CUDA directories
    cuda_root,     \* Builder.cuda_root
    self_compute_cap, \* Builder.compute_cap
    include_paths, \* Builder.include_paths
    extra_args,    \* Builder.extra_args
    builders,      \* Builders that Builder::default returned in this process
    argv,          \* per kernel: the arguments of the nvcc command spawned for it
    staged,        \* include files copied into the output directory in this run
    overtaken      \* a process exited non-zero before an earlier kernel's closure returned

vars ==
    <<now, mtime, dest, runs, pc, rayon_env, pool, kernel_paths, closure,
      children, obs, spawnCount, bindings, writes, panicLog, archSpawned,
      host, cuda_root, self_compute_cap, include_paths, extra_args, builders,
      argv, staged, overtaken>>

fsVars   == <<now, mtime, dest>>
runVars  ==
    <<closure, children, obs, spawnCount, bindings, writes, panicLog, archSpawned,
      argv, staged, overtaken>>
cfgVars  == <<cuda_root, self_compute_cap, include_paths, extra_args, builders>>

NoBindings == [some |-> FALSE, write |-> FALSE, paths |-> <<>>]
NoFile == [exists |-> FALSE, bytes |-> <<>>]

Units == DOMAIN closure

exists(p) == mtime[p] > 0

\* SystemTime::duration_since(a, b).is_ok(): a is not earlier than b.
duration_since_is_ok(a, b) == a >= b

(***************************************************************************)
(* Builder::default (lines 19-46)                                          *)
(***************************************************************************)
\* lines 21-24: RAYON_NUM_THREADS when set, else the physical core count.
num_cpus(env) == IF env.set THEN env.val ELSE PhysicalCores

\* lines 26-29: ThreadPoolBuilder::num_threads(n).build_global(); rayon takes
\* n = 0 as "choose for me", which with RAYON_NUM_THREADS unset or 0 is the
\* number of logical cores.
num_threads(n) == IF n > 0 THEN n ELSE LogicalCores

\* A build_global that replaces a pool that is already there.
build_global_again == TRUE

\* lines 26-29: build_global() is Ok only while the process has no global
\* pool yet.
build_global_ok == pool = 0

\* lines 53-60: glob("src/**/*.cu"), in the glob's (alphabetical) order.
default_kernels == <<Attention, FlashAttention, AttentionV2>>

\* No build script is running: there is no Builder and no run.
NoRun ==
    /\ runs = 0
    /\ pc = "idle"
    /\ rayon_env = EnvUnset
    /\ pool = 0
    /\ kernel_paths = <<>>
    /\ closure = <<>>
    /\ children = <<>>
    /\ obs = <<>>
    /\ spawnCount = <<>>
    /\ bindings = NoBindings
    /\ writes = 0
    /\ panicLog = <<>>
    /\ archSpawned = 0
    /\ cuda_root = NoPath
    /\ self_compute_cap = NoCap
    /\ include_paths = <<>>
    /\ extra_args = <<>>
    /\ builders = 0
    /\ argv = <<>>
    /\ staged = {}
    /\ overtaken = FALSE

Init ==
    /\ now = 1
    /\ mtime = [p \in Files |-> IF p \in KernelFiles THEN 1 ELSE 0]
    /\ dest = NoFile
    /\ host = DefaultHost
    /\ NoRun

\* Time passes.
Tick ==
    /\ now < MaxTime
    /\ pc \in {"idle", "ptx_par", "lib_par", "lib_link"}
    /\ now' = now + 1
    /\ UNCHANGED <<mtime, dest, runs, pc, rayon_env, pool, kernel_paths, host>>
    /\ UNCHANGED cfgVars
    /\ UNCHANGED runVars

\* Between two runs the developer saves a kernel source.
Touch(p) ==
    /\ pc = "idle"
    /\ mtime[p] < now
    /\ mtime' = [mtime EXCEPT ![p] = now]
    /\ UNCHANGED <<now, dest, runs, pc, rayon_env, pool, kernel_paths, host>>
    /\ UNCHANGED cfgVars
    /\ UNCHANGED runVars

\* The messages of the two unwrap() of Builder::default.
ParseIntError ==
    <<"called 'Result::unwrap()' on an 'Err' value: ParseIntError { kind: InvalidDigit }">>
GlobalPoolAlreadyInitialized ==
    <<"called 'Result::unwrap()' on an 'Err' value: ThreadPoolBuildError { kind: GlobalPoolAlreadyInitialized }">>

\* lines 30-45: compute_cap() has returned cap or panicked; when it returned
\* the Builder is put together.
Construct(cap) ==
    IF cap.ok
    THEN /\ cuda_root' = cuda_include_dir(host)
         /\ kernel_paths' = default_kernels
         /\ include_paths' = default_include
         /\ extra_args' = <<>>
         /\ self_compute_cap' = SomeCap(cap.val)
         /\ builders' = builders + 1
         /\ pc' = "builder"
         /\ UNCHANGED panicLog
    ELSE /\ panicLog' = Append(panicLog, cap.msg)
         /\ pc' = "panicked"
         /\ UNCHANGED kernel_paths
         /\ UNCHANGED cfgVars

\* lines 19-46, for a process whose RAYON_NUM_THREADS is env: the variable is
\* parsed (a negative number is no usize), the global pool is built, and
\* the Builder is put together; compute_cap() may panic on the way.
Default(env) ==
    /\ rayon_env' = env
    /\ IF env.set /\ env.val < 0
       THEN /\ panicLog' = Append(panicLog, ParseIntError)
            /\ pc' = "panicked"
            /\ UNCHANGED <<pool, kernel_paths>>
            /\ UNCHANGED cfgVars
       ELSE IF ~build_global_ok
       THEN /\ panicLog' = Append(panicLog, GlobalPoolAlreadyInitialized)
            /\ pc' = "panicked"
            /\ UNCHANGED <<pool, kernel_paths>>
            /\ UNCHANGED cfgVars
       ELSE /\ pool' = num_threads(num_cpus(env))
            /\ Construct(compute_cap(host))
    /\ UNCHANGED host

\* A build script starts (a new process) and calls Builder::default().
BuilderDefault(env) ==
    /\ pc = "idle"
    /\ runs < MaxRuns
    /\ runs' = runs + 1
    /\ Default(env)
    /\ UNCHANGED <<closure, children, obs, spawnCount, bindings, writes, archSpawned>>
    /\ UNCHANGED <<argv, staged, overtaken>>
    /\ UNCHANGED fsVars

\* The build script calls Builder::default() once more, in the same process.
BuilderDefaultAgain(env) ==
    /\ pc \in {"builder", "configured", "built", "lib_done"}
    /\ builders < MaxBuilders
    /\ Default(env)
    /\ UNCHANGED runs
    /\ UNCHANGED <<closure, children, obs, spawnCount, bindings, writes, archSpawned>>
    /\ UNCHANGED <<argv, staged, overtaken>>
    /\ UNCHANGED fsVars

\* Builder::kernel_paths (lines 71-78).
KernelPaths(paths) ==
    /\ pc = "builder"
    /\ \A i \in 1..Len(paths) : exists(paths[i])
    /\ kernel_paths' = paths
    /\ pc' = "configured"
    /\ UNCHANGED <<runs, rayon_env, pool, host>>
    /\ UNCHANGED cfgVars
    /\ UNCHANGED fsVars
    /\ UNCHANGED runVars

\* Builder::include_paths (lines 80-83).
IncludePaths(paths) ==
    /\ pc \in {"builder", "configured"}
    /\ include_paths' = paths
    /\ UNCHANGED <<cuda_root, self_compute_cap, extra_args, builders>>
    /\ UNCHANGED <<runs, pc, rayon_env, pool, kernel_paths, host>>
    /\ UNCHANGED fsVars
    /\ UNCHANGED runVars

\* Builder::arg (lines 106-109).
Arg(arg) ==
    /\ pc \in {"builder", "configured"}
    /\ Len(extra_args) < MaxArgs
    /\ extra_args' = Append(extra_args, arg)
    /\ UNCHANGED <<cuda_root, self_compute_cap, include_paths, builders>>
    /\ UNCHANGED <<runs, pc, rayon_env, pool, kernel_paths, host>>
    /\ UNCHANGED fsVars
    /\ UNCHANGED runVars

\* Builder::cuda_root (lines 111-116).
CudaRoot(path) ==
    /\ pc \in {"builder", "configured"}
    /\ cuda_root' = SomePath(path)
    /\ UNCHANGED <<self_compute_cap, include_paths, extra_args, builders>>
    /\ UNCHANGED <<runs, pc, rayon_env, pool, kernel_paths, host>>
    /\ UNCHANGED fsVars
    /\ UNCHANGED runVars

(***************************************************************************)
(* The nvcc command line                                                   *)
(***************************************************************************)
\* PathBuf::pop: the path without its last component.
pop(p) ==
    LET k == LastIndexOf(p, "/")
    IN  IF k = 0 THEN <<>> ELSE IF k = 1 THEN <<"/">> ELSE SubSeq(p, 1, k - 1)

\* The characters of the model's paths in the order of their codes.
CharOrder ==
    <<"-",".","/","0","1","2","3","4","5","6","7","8","9","_">> \o LowerChars
CharCode(c) == CHOOSE k \in 1..Len(CharOrder) : CharOrder[k] = c

\* Ord for str: a is less than b, byte by byte.
RECURSIVE str_lt(_, _)
str_lt(a, b) ==
    IF b = <<>> THEN FALSE
    ELSE IF a = <<>> THEN TRUE
    ELSE IF a[1] # b[1] THEN CharCode(a[1]) < CharCode(b[1])
    ELSE str_lt(Tail(a), Tail(b))

\* Ord for Path: component by component.
RECURSIVE components_lt(_, _)
components_lt(a, b) ==
    IF b = <<>> THEN FALSE
    ELSE IF a = <<>> THEN TRUE
    ELSE IF a[1] # b[1] THEN str_lt(a[1], b[1])
    ELSE components_lt(Tail(a), Tail(b))
path_lt(a, b) == components_lt(split(a, "/"), split(b, "/"))

\* The position of a least path of a sequence.
MinPath(s) == CHOOSE i \in 1..Len(s) : \A j \in 1..Len(s) : ~path_lt(s[j], s[i])

\* line 217: Vec<PathBuf>::sort.
RECURSIVE sort_paths(_)
sort_paths(s) ==
    IF s = <<>> THEN <<>>
    ELSE <<s[MinPath(s)]>>
         \o sort_paths(SubSeq(s, 1, MinPath(s) - 1) \o SubSeq(s, MinPath(s) + 1, Len(s)))

\* line 218: Vec::dedup, which removes the repetitions that follow one
\* another.
RECURSIVE dedup(_)
dedup(s) ==
    IF Len(s) <= 1 THEN s
    ELSE IF s[1] = s[2] THEN dedup(Tail(s))
    ELSE <<s[1]>> \o dedup(Tail(s))

\* lines 208-224: one -I<dir> per directory of the include files.
to_options(include_directories) ==
    [k \in 1..Len(include_directories) |-> <<"-I">> \o include_directories[k]]
include_options ==
    to_options(dedup(sort_paths([k \in 1..Len(include_paths) |-> pop(include_paths[k])])))

\* lines 253-257 and 156-160: the two flags and the path added when
\* NVCC_CCBIN is set.
ccbin_args ==
    IF host.NVCC_CCBIN.set
    THEN << <<"-allow-unsupported-compiler">>, <<"-ccbin">>, host.NVCC_CCBIN.val >>
    ELSE <<>>

\* lines 247, 151.
gpu_architecture == <<"--gpu-architecture=sm_">> \o ToDecimal(self_compute_cap.val)

\* lines 246-258: the command of build_ptx for kernel p.
PtxCommandArgs(p) ==
    << gpu_architecture, <<"--ptx">>, <<"--default-stream">>, <<"per-thread">>,
       <<"--output-directory">>, OutDir >>
    \o extra_args \o include_options \o ccbin_args \o <<p>>

\* lines 149-161: the command of build_lib for kernel cu_file.
LibCommandArgs(cu_file) ==
    << gpu_architecture, <<"-c">>, <<"-o">>, obj_file(cu_file),
       <<"--default-stream">>, <<"per-thread">> >>
    \o extra_args \o ccbin_args \o <<cu_file>>

(***************************************************************************)
(* Builder::build_ptx (lines 199-285)                                      *)
(***************************************************************************)
\* How the PTX file of kernel p compares with p at this moment (what the
\* closure is about to look at; recorded, not used by the program).
Compare(p) ==
    LET out == output_filename(p)
    IN  IF mtime[out] = 0 THEN "absent"
        ELSE IF mtime[out] < mtime[p] THEN "older"
        ELSE IF mtime[out] = mtime[p] THEN "equal"
        ELSE "newer"

\* ignore without the comparison of the two times.
ignore_existing(p) == exists(output_filename(p))

\* lines 236-242: the kernel is skipped when its PTX file exists and is not
\* older than the source.
ignore(p) ==
    IF exists(output_filename(p))
    THEN duration_since_is_ok(mtime[output_filename(p)], mtime[p])
    ELSE FALSE

\* A closure that returns the spawned child without waiting for it.
InClosure_no_wait(i) == FALSE

\* lines 259-260: the closure waits for the process it spawned
\* (wait_with_output), so it keeps its pool thread while the process runs.
InClosure(i) == closure[i] = "running"

\* Pool threads that are inside a closure.
ThreadsBusy == Cardinality({i \in Units : InClosure(i)})

\* Compiler processes that were spawned and have not exited.
Running == {i \in Units : closure[i] = "running"}

\* line 200.
CouldNotFindCuda ==
    <<"Could not find CUDA in standard locations, set it manually using Builder().set_cuda_root(...)">>

\* build_ptx going on without a CUDA directory.
cuda_root_unchecked == TRUE

\* line 200: self.cuda_root.expect(...).
cuda_root_found == cuda_root.some

\* lines 199-227: the run checks cuda_root and compute_cap, copies the include
\* files into the output directory and enters the parallel iterator over
\* kernel_paths.
BuildPtxStart ==
    /\ pc \in {"builder", "configured"}
    /\ IF ~cuda_root_found
       THEN /\ panicLog' = Append(panicLog, CouldNotFindCuda)
            /\ pc' = "panicked"
            /\ UNCHANGED <<closure, children, obs, spawnCount, argv, staged>>
       ELSE IF ~self_compute_cap.some
       THEN /\ panicLog' = Append(panicLog, <<"Could not find compute_cap">>)
            /\ pc' = "panicked"
            /\ UNCHANGED <<closure, children, obs, spawnCount, argv, staged>>
       ELSE /\ pc' = "ptx_par"
            /\ staged' = {join(OutDir, file_name(include_paths[k])) :
                             k \in 1..Len(include_paths)}
            /\ closure' = [i \in 1..Len(kernel_paths) |-> "todo"]
            /\ children' = [i \in 1..Len(kernel_paths) |-> None]
            /\ obs' = [i \in 1..Len(kernel_paths) |-> "none"]
            /\ spawnCount' = [i \in 1..Len(kernel_paths) |-> 0]
            /\ argv' = [i \in 1..Len(kernel_paths) |-> <<>>]
            /\ UNCHANGED panicLog
    /\ UNCHANGED <<runs, rayon_env, pool, kernel_paths, host>>
    /\ UNCHANGED <<bindings, writes, archSpawned, overtaken>>
    /\ UNCHANGED cfgVars
    /\ UNCHANGED fsVars

\* lines 230-261: a pool thread takes kernel i; it either skips it or spawns
\* nvcc for it.
PtxClosure(i) ==
    /\ pc = "ptx_par"
    /\ closure[i] = "todo"
    /\ ThreadsBusy < pool
    /\ obs' = [obs EXCEPT ![i] = Compare(kernel_paths[i])]
    /\ IF ignore(kernel_paths[i])
       THEN /\ closure' = [closure EXCEPT ![i] = "done"]
            /\ UNCHANGED <<spawnCount, argv>>
       ELSE /\ closure' = [closure EXCEPT ![i] = "running"]
            /\ spawnCount' = [spawnCount EXCEPT ![i] = @ + 1]
            /\ argv' = [argv EXCEPT ![i] = PtxCommandArgs(kernel_paths[i])]
    /\ UNCHANGED <<runs, pc, rayon_env, pool, kernel_paths, host>>
    /\ UNCHANGED <<children, bindings, writes, panicLog, archSpawned, staged, overtaken>>
    /\ UNCHANGED cfgVars
    /\ UNCHANGED fsVars

\* lines 259-260: the nvcc process of kernel i exits; a successful one has
\* written the PTX file.  The closure returns Some((p, output)).
PtxProcExit(i, o) ==
    /\ pc = "ptx_par"
    /\ closure[i] = "running"
    /\ closure' = [closure EXCEPT ![i] = "done"]
    /\ children' = [children EXCEPT ![i] = Some(o)]
    /\ mtime' = IF o.status = 0
                THEN [mtime EXCEPT ![output_filename(kernel_paths[i])] = now]
                ELSE mtime
    /\ overtaken' = (overtaken \/ (o.status # 0 /\ \E j \in Units : j < i /\ closure[j] # "done"))
    /\ UNCHANGED <<now, dest>>
    /\ UNCHANGED <<runs, pc, rayon_env, pool, kernel_paths, host>>
    /\ UNCHANGED <<obs, spawnCount, bindings, writes, panicLog, archSpawned, argv, staged>>
    /\ UNCHANGED cfgVars

\* lines 265-268: glob("{out_dir}/**/*.ptx").
ptx_paths ==
    {p \in Files : /\ exists(p)
                   /\ StartsWith(p, OutDir \o <<"/">>)
                   /\ EndsWith(p, <<".","p","t","x">>)}

\* line 271 with <= for <.
write_flag_le ==
    (\E i \in Units : children[i].some) \/ Len(kernel_paths) <= Cardinality(ptx_paths)

\* line 271.
write_flag ==
    (\E i \in Units : children[i].some) \/ Len(kernel_paths) < Cardinality(ptx_paths)

\* The message with the standard output printed under both headings.
PtxMessage_stdout_twice(kernel_path, output) ==
    <<"nvcc error while compiling ">> \o Debug(kernel_path)
    \o <<":\n\n# stdout\n">> \o from_utf8_lossy(output.stdout)
    \o <<"\n\n# stderr\n">> \o from_utf8_lossy(output.stdout)

\* lines 274-279: the assertion's message.
PtxMessage(kernel_path, output) ==
    <<"nvcc error while compiling ">> \o Debug(kernel_path)
    \o <<":\n\n# stdout\n">> \o from_utf8_lossy(output.stdout)
    \o <<"\n\n# stderr\n">> \o from_utf8_lossy(output.stderr)

\* The loop over the children reporting the last failure instead of the first.
FirstFailedChild_last ==
    LET F == {i \in Units : children[i].some /\ children[i].status # 0}
    IN  IF F = {} THEN 0 ELSE CHOOSE i \in F : \A j \in F : j <= i

\* The loop over the children asserting on the first child only.
FirstFailedChild_first_only ==
    IF 1 \in Units /\ children[1].some /\ children[1].status # 0 THEN 1 ELSE 0

\* lines 272-280: the first child, in the order of kernel_paths, whose
\* process did not succeed (0 when all succeeded).
FirstFailedChild ==
    LET F == {i \in Units : children[i].some /\ children[i].status # 0}
    IN  IF F = {} THEN 0 ELSE CHOOSE i \in F : \A j \in F : i <= j

\* lines 263-285: all closures have returned; the children are inspected in
\* order and the Bindings are returned.
PtxCollect ==
    /\ pc = "ptx_par"
    /\ \A i \in Units : closure[i] = "done"
    /\ IF FirstFailedChild # 0
       THEN /\ panicLog' = Append(panicLog,
                   PtxMessage(kernel_paths[FirstFailedChild], children[FirstFailedChild]))
            /\ pc' = "panicked"
            /\ UNCHANGED bindings
       ELSE /\ bindings' = [some |-> TRUE, write |-> write_flag, paths |-> kernel_paths]
            /\ pc' = "built"
            /\ UNCHANGED panicLog
    /\ UNCHANGED <<runs, rayon_env, pool, kernel_paths, host>>
    /\ UNCHANGED <<closure, children, obs, spawnCount, writes, archSpawned>>
    /\ UNCHANGED <<argv, staged, overtaken>>
    /\ UNCHANGED cfgVars
    /\ UNCHANGED fsVars

(***************************************************************************)
(* Bindings::write (lines 289-310)                                         *)
(***************************************************************************)
\* Opening the file without truncating it.
File_open_keep(f) == [f EXCEPT !.exists = TRUE]

\* File::create: the file exists and is empty afterwards.
File_create(f) == [exists |-> TRUE, bytes |-> <<>>]

\* File::write_all.
write_all(f, bytes) == [f EXCEPT !.bytes = @ \o bytes]

\* The line with the upper-cased stem, its '.' kept.
Entry_dotted(kernel_path) ==
    LET name == file_stem(kernel_path)
    IN  <<"pub const ">> \o to_uppercase(name)
        \o <<": &str = include_str!(concat!(env!(\"OUT_DIR\"), \"/">>
        \o name \o <<".ptx\"));">>

\* lines 296-302: the line written for one kernel.
Entry(kernel_path) ==
    LET name == file_stem(kernel_path)
    IN  <<"pub const ">> \o replace(to_uppercase(name), ".", "_")
        \o <<": &str = include_str!(concat!(env!(\"OUT_DIR\"), \"/">>
        \o name \o <<".ptx\"));">>

\* lines 295-307: the loop over the paths.
RECURSIVE WriteEntries(_, _)
WriteEntries(f, paths) ==
    IF paths = <<>> THEN f
    ELSE WriteEntries(write_all(write_all(f, Entry(Head(paths))), <<"\n">>), Tail(paths))

\* lines 293-309: the file after self.write(out).
Written(b, f) == IF b.write THEN WriteEntries(File_create(f), b.paths) ELSE f

BindingsWrite ==
    /\ pc = "built"
    /\ writes < MaxWrites
    /\ writes' = writes + 1
    /\ dest' = Written(bindings, dest)
    /\ UNCHANGED <<now, mtime>>
    /\ UNCHANGED <<runs, pc, rayon_env, pool, kernel_paths, host>>
    /\ UNCHANGED <<closure, children, obs, spawnCount, bindings, panicLog, archSpawned>>
    /\ UNCHANGED <<argv, staged, overtaken>>
    /\ UNCHANGED cfgVars

\* The build script's process ends.
Finish ==
    /\ pc \in {"built", "panicked", "lib_done"}
    /\ pc' = "idle"
    /\ rayon_env' = EnvUnset
    /\ pool' = 0
    /\ kernel_paths' = <<>>
    /\ closure' = <<>>
    /\ children' = <<>>
    /\ obs' = <<>>
    /\ spawnCount' = <<>>
    /\ bindings' = NoBindings
    /\ writes' = 0
    /\ panicLog' = <<>>
    /\ archSpawned' = 0
    /\ cuda_root' = NoPath
    /\ self_compute_cap' = NoCap
    /\ include_paths' = <<>>
    /\ extra_args' = <<>>
    /\ builders' = 0
    /\ argv' = <<>>
    /\ staged' = {}
    /\ overtaken' = FALSE
    /\ UNCHANGED <<runs, host>>
    /\ UNCHANGED fsVars

(***************************************************************************)
(* Builder::build_lib (lines 118-197)                                      *)
(***************************************************************************)
\* fmt::Debug of a Command: the program and every argument, quoted.
RECURSIVE DebugArgs(_)
DebugArgs(args) ==
    IF args = <<>> THEN <<>> ELSE <<" ">> \o Debug(Head(args)) \o DebugArgs(Tail(args))
DebugCommand(program, args) == Debug(program) \o DebugArgs(args)

Nvcc == <<"n","v","c","c">>

\* The decision with all() for any().
should_compile_all ==
    IF exists(OutFile)
    THEN \A i \in 1..Len(kernel_paths) :
            duration_since_is_ok(mtime[kernel_paths[i]], mtime[OutFile])
    ELSE TRUE

\* lines 134-143: the archive is missing, or some kernel is not older than
\* it.
should_compile ==
    IF exists(OutFile)
    THEN \E i \in 1..Len(kernel_paths) :
            duration_since_is_ok(mtime[kernel_paths[i]], mtime[OutFile])
    ELSE TRUE

\* lines 118-145: up to the decision whether anything is compiled.
BuildLibStart ==
    /\ pc \in {"builder", "configured"}
    /\ IF ~self_compute_cap.some
       THEN /\ panicLog' = Append(panicLog, <<"Failed to get compute_cap">>)
            /\ pc' = "panicked"
            /\ UNCHANGED <<closure, children, obs, spawnCount, argv>>
       ELSE IF should_compile
       THEN /\ pc' = "lib_par"
            /\ closure' = [i \in 1..Len(kernel_paths) |-> "todo"]
            /\ children' = [i \in 1..Len(kernel_paths) |-> None]
            /\ obs' = [i \in 1..Len(kernel_paths) |-> "none"]
            /\ spawnCount' = [i \in 1..Len(kernel_paths) |-> 0]
            /\ argv' = [i \in 1..Len(kernel_paths) |-> <<>>]
            /\ UNCHANGED panicLog
       ELSE /\ pc' = "lib_done"
            /\ UNCHANGED <<closure, children, obs, spawnCount, argv, panicLog>>
    /\ UNCHANGED <<runs, rayon_env, pool, kernel_paths, host>>
    /\ UNCHANGED <<bindings, writes, archSpawned, staged, overtaken>>
    /\ UNCHANGED cfgVars
    /\ UNCHANGED fsVars

\* lines 167-172.
LibMessage(cu_file, output) ==
    <<"nvcc error while executing compiling: ">>
    \o DebugCommand(Nvcc, LibCommandArgs(cu_file))
    \o <<"\n\n# stdout\n">> \o from_utf8_lossy(output.stdout)
    \o <<"\n\n# stderr\n">> \o from_utf8_lossy(output.stderr)

\* lines 148-165: a pool thread takes kernel i and spawns nvcc -c for it.
LibClosure(i) ==
    /\ pc = "lib_par"
    /\ closure[i] = "todo"
    /\ ThreadsBusy < pool
    /\ closure' = [closure EXCEPT ![i] = "running"]
    /\ spawnCount' = [spawnCount EXCEPT ![i] = @ + 1]
    /\ argv' = [argv EXCEPT ![i] = LibCommandArgs(kernel_paths[i])]
    /\ UNCHANGED <<runs, pc, rayon_env, pool, kernel_paths, host>>
    /\ UNCHANGED <<children, obs, bindings, writes, panicLog, archSpawned>>
    /\ UNCHANGED <<staged, overtaken>>
    /\ UNCHANGED cfgVars
    /\ UNCHANGED fsVars

\* lines 162-174: the process exits; a successful one has written the object
\* file, any other makes the closure panic.
LibProcExit(i, o) ==
    /\ pc = "lib_par"
    /\ closure[i] = "running"
    /\ children' = [children EXCEPT ![i] = Some(o)]
    /\ IF o.status = 0
       THEN /\ closure' = [closure EXCEPT ![i] = "done"]
            /\ mtime' = [mtime EXCEPT ![obj_file(kernel_paths[i])] = now]
            /\ UNCHANGED panicLog
       ELSE /\ closure' = [closure EXCEPT ![i] = "panicked"]
            /\ panicLog' = Append(panicLog, LibMessage(kernel_paths[i], o))
            /\ UNCHANGED mtime
    /\ UNCHANGED <<now, dest>>
    /\ UNCHANGED <<runs, pc, rayon_env, pool, kernel_paths, host>>
    /\ UNCHANGED <<obs, spawnCount, bindings, writes, archSpawned>>
    /\ UNCHANGED <<argv, staged, overtaken>>
    /\ UNCHANGED cfgVars

\* collect() returning as soon as every closure has been taken by a thread.
Collected_dispatched == \A i \in Units : closure[i] # "todo"

\* line 176: collect() returns Ok(()) once every closure has returned.
Collected == \A i \in Units : closure[i] = "done"

\* line 176 to line 184: the parallel iterator is over when no closure is
\* running and either all returned or one panicked (rayon then hands the panic
\* to the caller; closures not yet started may or may not have run).  Without
\* a panic the archiver is spawned.
LibJoin ==
    /\ pc = "lib_par"
    /\ IF \E i \in Units : closure[i] = "panicked"
       THEN /\ Running = {}
            /\ pc' = "panicked"
            /\ UNCHANGED archSpawned
       ELSE /\ Collected
            /\ pc' = "lib_link"
            /\ archSpawned' = archSpawned + 1
    /\ UNCHANGED <<runs, rayon_env, pool, kernel_paths, host>>
    /\ UNCHANGED <<closure, children, obs, spawnCount, bindings, writes, panicLog>>
    /\ UNCHANGED <<argv, staged, overtaken>>
    /\ UNCHANGED cfgVars
    /\ UNCHANGED fsVars

\* lines 178-182: the archiver's command.
LinkCommandArgs ==
    << <<"--lib">>, <<"-o">>, OutFile >>
    \o [i \in 1..Len(kernel_paths) |-> obj_file(kernel_paths[i])]

\* lines 189-194.
LinkMessage(output) ==
    <<"nvcc error while linking: ">> \o DebugCommand(Nvcc, LinkCommandArgs)
    \o <<"\n\n# stdout\n">> \o from_utf8_lossy(output.stdout)
    \o <<"\n\n# stderr\n">> \o from_utf8_lossy(output.stderr)

\* lines 183-195: the archiver exits; a successful one has written the
\* archive.
ArchiverExit(o) ==
    /\ pc = "lib_link"
    /\ IF o.status = 0
       THEN /\ mtime' = [mtime EXCEPT ![OutFile] = now]
            /\ pc' = "lib_done"
            /\ UNCHANGED panicLog
       ELSE /\ panicLog' = Append(panicLog, LinkMessage(o))
            /\ pc' = "panicked"
            /\ UNCHANGED mtime
    /\ UNCHANGED <<now, dest>>
    /\ UNCHANGED <<runs, rayon_env, pool, kernel_paths, host>>
    /\ UNCHANGED <<closure, children, obs, spawnCount, bindings, writes, archSpawned>>
    /\ UNCHANGED <<argv, staged, overtaken>>
    /\ UNCHANGED cfgVars

(***************************************************************************)
(* Specifications                                                          *)
(***************************************************************************)
\* Incremental PTX builds: build scripts that call build_ptx and write the
\* bindings run one after the other while the developer edits kernels and
\* the kernel list; nvcc succeeds.
Next ==
    \/ Tick
    \/ \E p \in KernelFiles : Touch(p)
    \/ BuilderDefault(EnvUnset)
    \/ \E paths \in KernelLists : KernelPaths(paths)
    \/ BuildPtxStart
    \/ \E i \in Units : PtxClosure(i)
    \/ \E i \in Units : PtxProcExit(i, Success)
    \/ PtxCollect
    \/ BindingsWrite
    \/ Finish

Spec == Init /\ [][Next]_vars

\* Incremental library builds: the same with build_lib.
NextLib ==
    \/ Tick
    \/ \E p \in KernelFiles : Touch(p)
    \/ BuilderDefault(EnvUnset)
    \/ \E paths \in KernelLists : KernelPaths(paths)
    \/ BuildLibStart
    \/ \E i \in Units : LibClosure(i)
    \/ \E i \in Units : LibProcExit(i, Success)
    \/ LibJoin
    \/ ArchiverExit(Success)
    \/ Finish

SpecLib == Init /\ [][NextLib]_vars

\* One build script, in either mode, with any RAYON_NUM_THREADS, whose nvcc
\* processes may fail; the disk holds the kernels and perhaps an archive of
\* an earlier build.
InitRun ==
    /\ now = 2
    /\ mtime \in {[p \in Files |-> IF p \in KernelFiles THEN 1
                                   ELSE IF p = OutFile THEN t ELSE 0] : t \in {0, 1}}
    /\ dest = NoFile
    /\ host = DefaultHost
    /\ NoRun

NextRun ==
    \/ \E env \in RayonEnvs : BuilderDefault(env)
    \/ \E paths \in KernelLists : KernelPaths(paths)
    \/ BuildPtxStart
    \/ \E i \in Units : PtxClosure(i)
    \/ \E i \in Units, o \in ProcessOutcomes : PtxProcExit(i, o)
    \/ PtxCollect
    \/ BindingsWrite
    \/ BuildLibStart
    \/ \E i \in Units : LibClosure(i)
    \/ \E i \in Units, o \in ProcessOutcomes : LibProcExit(i, o)
    \/ LibJoin
    \/ \E o \in ProcessOutcomes : ArchiverExit(o)

SpecRun == InitRun /\ [][NextRun]_vars

\* Incremental PTX builds in which every build script that got its Bindings
\* writes them before it ends.
FinishWritten ==
    /\ pc = "built" => writes >= 1
    /\ Finish

NextWritten ==
    \/ Tick
    \/ \E p \in KernelFiles : Touch(p)
    \/ BuilderDefault(EnvUnset)
    \/ \E paths \in KernelLists : KernelPaths(paths)
    \/ BuildPtxStart
    \/ \E i \in Units : PtxClosure(i)
    \/ \E i \in Units : PtxProcExit(i, Success)
    \/ PtxCollect
    \/ BindingsWrite
    \/ FinishWritten

SpecWritten == Init /\ [][NextWritten]_vars

\* Builder::default on every machine of the model: any CUDA_COMPUTE_CAP, any
\* answer of nvidia-smi and any list of nvcc.
CapHosts ==
    { Host(cap, smi, codes, {roots[2]}, Unset) :
        cap \in {Unset, Set(CapPlain), Set(CapDotted), Set(CapLow), Set(CapHigh)},
        smi \in {SmiDotted, SmiPlain, SmiHigh, SmiLow, SmiNoDevice},
        codes \in {CodesAmpere, CodesUnsorted, CodesSuffixed, CodesNone} }

InitCap ==
    /\ now = 1
    /\ mtime = [p \in Files |-> IF p \in KernelFiles THEN 1 ELSE 0]
    /\ dest = NoFile
    /\ host \in CapHosts
    /\ NoRun

NextCap ==
    \/ \E env \in RayonEnvs : BuilderDefault(env)
    \/ Finish

SpecCap == InitCap /\ [][NextCap]_vars

\* One build script on machines with and without a CUDA directory, a
\* resolvable capability and NVCC_CCBIN, which configures its Builder with
\* the builder methods, may call Builder::default again, and builds in
\* either mode; nvcc succeeds.
ConfigHosts ==
    { Host(c[1], c[2], CodesAmpere, cuda, ccbin) :
        c \in {<<Unset, SmiDotted>>, <<Unset, SmiNoDevice>>, <<Set(CapHigh), SmiDotted>>},
        cuda \in {{}, {roots[2]}},
        ccbin \in {Unset, Set(CcbinPath)} }

ConfigKernelLists == {<<FlashAttention, Attention>>}
IncludeLists == {<<>>, <<HeaderA, HeaderB, HeaderC>>}

InitConfig ==
    /\ now = 2
    /\ mtime = [p \in Files |-> IF p \in KernelFiles THEN 1 ELSE 0]
    /\ dest = NoFile
    /\ host \in ConfigHosts
    /\ NoRun

NextConfig ==
    \/ \E env \in {EnvUnset, EnvInvalid} : BuilderDefault(env)
    \/ \E env \in {EnvUnset, EnvInvalid} : BuilderDefaultAgain(env)
    \/ \E paths \in ConfigKernelLists : KernelPaths(paths)
    \/ \E paths \in IncludeLists : IncludePaths(paths)
    \/ \E arg \in ExtraArgs : Arg(arg)
    \/ CudaRoot(roots[1])
    \/ BuildPtxStart
    \/ \E i \in Units : PtxClosure(i)
    \/ \E i \in Units : PtxProcExit(i, Success)
    \/ PtxCollect
    \/ BuildLibStart
    \/ \E i \in Units : LibClosure(i)
    \/ \E i \in Units : LibProcExit(i, Success)
    \/ LibJoin
    \/ ArchiverExit(Success)

SpecConfig == InitConfig /\ [][NextConfig]_vars

(***************************************************************************)
(* Properties                                                              *)
(***************************************************************************)
Configured == {kernel_paths[i] : i \in 1..Len(kernel_paths)}

\* C1: in build_ptx a kernel whose PTX file has exactly the last-modified
\* time of its source is treated as stale: nvcc is invoked for it.
C1_TieIsStale ==
    \A i \in Units :
        (/\ obs[i] = "equal"
         /\ \A j \in Units \ {i} :
               output_filename(kernel_paths[j]) # output_filename(kernel_paths[i]))
        => spawnCount[i] = 1

\* C2: in build_ptx a kernel whose PTX file is absent, or older than its
\* source, has exactly one nvcc process spawned for it, and the Bindings of a
\* run with such a kernel carry write = true.
C2_StaleDispatchedOnce ==
    /\ \A i \in Units : obs[i] \in {"absent", "older"} => spawnCount[i] = 1
    /\ \A i \in Units : spawnCount[i] <= 1
    /\ (pc = "built" /\ \E i \in Units : obs[i] \in {"absent", "older"})
          => bindings.some /\ bindings.write

C2_Witness ==
    /\ pc = "built"
    /\ bindings.write
    /\ \E i, j \in Units :
          /\ obs[i] = "older" /\ spawnCount[i] = 1
          /\ obs[j] = "absent" /\ spawnCount[j] = 1

\* C3 as stated: when every configured kernel's PTX file is newer than its
\* source, no nvcc is spawned and the Bindings carry write = false.
C3_AllNewerNoChange ==
    (pc = "built" /\ Units # {} /\ \A i \in Units : obs[i] = "newer")
    => /\ \A i \in Units : spawnCount[i] = 0
       /\ ~bindings.write

C3_Cond ==
    /\ pc = "built"
    /\ \A i \in Units : obs[i] = "newer"
    /\ Cardinality(ptx_paths) <= Len(kernel_paths)

\* C3 as amended: when every configured kernel's PTX file is newer than its
\* source and the output directory holds no more PTX files than there are
\* configured kernels, no nvcc is spawned, the Bindings carry write = false
\* and Bindings::write leaves the destination file as it is.
C3_UpToDateNoChange ==
    /\ [](C3_Cond => /\ \A i \in Units : spawnCount[i] = 0
                     /\ bindings.some /\ ~bindings.write)
    /\ [][C3_Cond => dest' = dest]_vars

C3_Witness ==
    /\ C3_Cond
    /\ Len(kernel_paths) >= 2
    /\ dest.exists
    /\ writes >= 1

\* C4: when a kernel an earlier run wrote a bindings entry for is no longer
\* configured while its PTX file is still in the output directory, the run
\* sets write = true even though it compiled nothing.
C4_RemovedUnitSetsChanged ==
    (pc = "built" /\ writes = 0)
    => \A p \in KernelFiles :
          (/\ file_stem(p) \notin {file_stem(k) : k \in Configured}
           /\ exists(output_filename(p))
           /\ dest.exists
           /\ Contains(dest.bytes, Entry(p) \o <<"\n">>))
          => bindings.write

\* C7: Bindings::write with write = false leaves the destination file as it
\* was (contents and existence), and a second write on the same Bindings
\* leaves the contents the first write produced.
C7_WriteIdempotent ==
    [][writes' = writes + 1
         => /\ ~bindings.write => dest' = dest
            /\ writes >= 1 => dest' = dest]_vars

C7_Witness ==
    /\ pc = "built"
    /\ writes = 2
    /\ bindings.write
    /\ Len(bindings.paths) >= 1

\* The bindings lines of the three kernels, spelled out.
ExpectedLine(p) ==
    IF p = FlashAttention
    THEN <<"pub const ",
           "F","L","A","S","H","_","A","T","T","E","N","T","I","O","N",
           ": &str = include_str!(concat!(env!(\"OUT_DIR\"), \"/",
           "f","l","a","s","h",".","a","t","t","e","n","t","i","o","n",
           ".ptx\"));", "\n">>
    ELSE <<"pub const ",
           "A","T","T","E","N","T","I","O","N",
           ": &str = include_str!(concat!(env!(\"OUT_DIR\"), \"/",
           "a","t","t","e","n","t","i","o","n",
           ".ptx\"));", "\n">>

\* C8: with write = true, Bindings::write leaves in the destination exactly
\* one newline-terminated line per configured kernel, in the configured
\* order, whose identifier is the upper-cased stem with '.' turned into '_'
\* and which refers to "<stem>.ptx".
C8_EntriesInOrder ==
    (pc = "built" /\ writes >= 1 /\ bindings.write)
    => dest = [exists |-> TRUE,
               bytes |-> Flatten([i \in 1..Len(kernel_paths) |->
                                     ExpectedLine(kernel_paths[i])])]

C8_Witness ==
    /\ pc = "built"
    /\ writes >= 1
    /\ bindings.write
    /\ kernel_paths = <<FlashAttention, Attention>>

\* Kernels whose nvcc process exited with a non-zero status.
Failed == {i \in Units : children[i].some /\ children[i].status # 0}

\* C5: once a compile process of the run has exited non-zero, the run can
\* only end in a panic: build_ptx returns no Bindings and nothing is written
\* to the bindings file, build_lib spawns no archiver and leaves the archive
\* as it was, and no kernel has a second nvcc spawned for it.
C5_NoPartialSuccess ==
    Failed # {}
    => /\ pc \in {"ptx_par", "lib_par", "panicked"}
       /\ ~bindings.some
       /\ writes = 0
       /\ dest = NoFile
       /\ archSpawned = 0
       /\ mtime[OutFile] < now
       /\ \A i \in Units : spawnCount[i] <= 1

C5_Witness ==
    /\ pc = "panicked"
    /\ Failed # {}
    /\ \E j \in Units : children[j].some /\ children[j].status = 0
    /\ \A i \in Units : closure[i] = "done"

\* C6 as stated: the panic output of a failed run contains, for every
\* compile process that exited non-zero, the bytes it wrote to standard error
\* and to standard output, and its kernel's path.
C6_EveryFailureVerbatim ==
    pc = "panicked"
    => \A i \in Failed :
          \E k \in 1..Len(panicLog) :
             /\ Contains(panicLog[k], children[i].stderr)
             /\ Contains(panicLog[k], children[i].stdout)
             /\ Contains(panicLog[k], kernel_paths[i])

\* What a stream's bytes read as once decoded: invalid UTF-8 shows as U+FFFD.
Shown(bytes) == IF bytes = Garbled THEN <<"b","a","d","U+FFFD">> ELSE bytes

Reports(msg, i) ==
    /\ Contains(msg, Shown(children[i].stderr))
    /\ Contains(msg, Shown(children[i].stdout))
    /\ Contains(msg, kernel_paths[i])

\* C6 as amended: the panic output contains what the failing process wrote
\* to standard error and standard output, decoded as UTF-8 with every invalid
\* byte replaced by U+FFFD, and its kernel's path; in build_lib for every
\* compile process that exited non-zero, in build_ptx for the first kernel,
\* in configured order, whose process exited non-zero, in the only message
\* the run raises.
C6_FailureReported ==
    (pc = "panicked" /\ Failed # {})
    => IF \E i \in Units : closure[i] = "panicked"
       THEN \A i \in Failed : \E k \in 1..Len(panicLog) : Reports(panicLog[k], i)
       ELSE /\ Len(panicLog) = 1
            /\ Reports(panicLog[1], CHOOSE i \in Failed : \A j \in Failed : i <= j)

C6_Witness ==
    /\ pc = "panicked"
    /\ \A i \in Units : closure[i] = "done"
    /\ Len(panicLog) = 1
    /\ \E i, j \in Failed : i < j /\ children[i].stderr = SyntaxError
                                   /\ children[j].stdout = Garbled

\* C9: build_lib decides once, against the archive: when the archive is
\* missing or older than some configured kernel the run compiles every
\* configured kernel, whatever the state of its object file, and then spawns
\* the archiver; when the archive is newer than every configured kernel the
\* run spawns nothing.
C9_BatchStaleness ==
    /\ pc \in {"lib_par", "lib_link"}
          => \/ mtime[OutFile] = 0
             \/ \E k \in Configured : mtime[k] >= mtime[OutFile]
    /\ (pc = "lib_done" /\ archSpawned = 0)
          => /\ mtime[OutFile] > 0
             /\ \A k \in Configured : mtime[k] <= mtime[OutFile]
             /\ closure = <<>>
    /\ (pc = "lib_link" \/ (pc = "lib_done" /\ archSpawned > 0))
          => /\ archSpawned = 1
             /\ \A i \in 1..Len(kernel_paths) : i \in Units /\ spawnCount[i] = 1

C9_Witness ==
    /\ pc = "lib_par"
    /\ mtime[OutFile] > 0
    /\ \E k \in Configured : mtime[k] > mtime[OutFile]
    /\ \E i \in Units :
          /\ closure[i] = "running"
          /\ mtime[obj_file(kernel_paths[i])] >= mtime[kernel_paths[i]]

\* C10 as stated: at most N compiler processes run at any moment, N being
\* RAYON_NUM_THREADS when it is set and the physical core count otherwise.
C10_AtMostN ==
    Cardinality(Running) <= (IF rayon_env.set THEN rayon_env.val ELSE PhysicalCores)

\* C10 as amended: N is RAYON_NUM_THREADS when it is set to a positive
\* number, the physical core count when it is not set, and the number of
\* threads rayon chooses by itself (the logical core count) when it is set
\* to 0.
C10_AtMostPool ==
    Cardinality(Running)
       <= (IF ~rayon_env.set THEN PhysicalCores
           ELSE IF rayon_env.val > 0 THEN rayon_env.val
           ELSE LogicalCores)

C10_Witness ==
    /\ ~rayon_env.set
    /\ Cardinality(Running) = PhysicalCores
    /\ \E i \in Units : closure[i] = "todo"

\* C11: in build_lib the archiver is spawned at most once in a run, and only
\* after every compile closure of the run has returned: while the archiver
\* runs no compile process is running, none is started and no object file is
\* written.
C11_ArchiveAfterJoin ==
    /\ [](/\ archSpawned <= 1
          /\ pc = "lib_link"
                => /\ archSpawned = 1
                   /\ \A i \in 1..Len(kernel_paths) :
                         i \in Units /\ closure[i] = "done" /\ spawnCount[i] = 1)
    /\ [][pc = "lib_link"
            => /\ spawnCount' = spawnCount
               /\ \A p \in KernelFiles : mtime'[obj_file(p)] = mtime[obj_file(p)]]_vars

C11_Witness ==
    /\ pc = "lib_done"
    /\ archSpawned = 1
    /\ mtime[OutFile] = now
    /\ Len(kernel_paths) >= 2
    /\ \A i \in Units : children[i].some /\ children[i].status = 0

\* The file the compile process of kernel i writes: the object file in
\* build_lib, the PTX file in build_ptx.
Artifact(i) ==
    IF pc = "lib_par" THEN obj_file(kernel_paths[i]) ELSE output_filename(kernel_paths[i])

\* C12: two compile processes of one run that are running at the same time,
\* for two kernels with distinct source paths, write distinct files of the
\* output directory.
C12_DisjointArtifacts ==
    \A i, j \in Running :
        (i # j /\ kernel_paths[i] # kernel_paths[j]) => Artifact(i) # Artifact(j)

\* The bindings lines of a kernel list.
Lines(paths) == Flatten([i \in 1..Len(paths) |-> Entry(paths[i]) \o <<"\n">>])

\* No two kernels of the list share a file name.
DistinctNames(paths) ==
    \A i, j \in 1..Len(paths) : i # j => file_name(paths[i]) # file_name(paths[j])

\* C15: after a successful build_ptx run followed by Bindings::write, the
\* bindings file holds exactly one line per configured kernel, in the
\* configured order, whatever the kernel list of the earlier run that wrote
\* the same file was.  (Stated for kernel lists without two kernels of the
\* same file name, and for PTX files whose time differs from their source's.)
C15_BindingsFollowConfiguration ==
    (/\ pc = "built" /\ writes >= 1
     /\ DistinctNames(kernel_paths)
     /\ \A p \in KernelFiles : mtime[output_filename(p)] # mtime[p]
     /\ \E l \in KernelLists : DistinctNames(l) /\ dest.bytes = Lines(l))
    => dest.bytes = Lines(kernel_paths)

\* The identifiers each nvcc --list-gpu-code output of the model reports.
Reported(out) ==
    IF out = CodesAmpere THEN {80, 86}
    ELSE IF out = CodesUnsorted THEN {80, 90}
    ELSE IF out = CodesSuffixed THEN {86}
    ELSE {}

\* C13: a Builder carries a compute capability only if nvcc reports it as
\* supported and it does not exceed the largest one nvcc reports; when
\* Builder::default does not return such a Builder the process has panicked
\* and there is no Builder.
C13_SupportedCapOnly ==
    /\ self_compute_cap.some
          => /\ self_compute_cap.val \in Reported(host.list_gpu_code)
             /\ \E c \in Reported(host.list_gpu_code) :
                   /\ self_compute_cap.val <= c
                   /\ \A d \in Reported(host.list_gpu_code) : d <= c
    /\ pc = "builder" => self_compute_cap.some /\ builders = 1
    /\ pc = "panicked" => ~self_compute_cap.some /\ builders = 0 /\ Len(panicLog) = 1

C13_Witness ==
    /\ pc = "builder"
    /\ host.CUDA_COMPUTE_CAP = Set(CapHigh)
    /\ host.list_gpu_code = CodesUnsorted
    /\ self_compute_cap = SomeCap(90)

\* The text the capability is resolved from is "8.6" or "86".
C14_Input ==
    IF host.CUDA_COMPUTE_CAP.set
    THEN host.CUDA_COMPUTE_CAP.val \in {CapDotted, CapPlain}
    ELSE host.nvidia_smi \in {SmiDotted, SmiPlain}

\* C14: where nvcc supports 86, the capability resolved from "8.6" and the
\* one resolved from "86" are both 86, whether the text is CUDA_COMPUTE_CAP or
\* the answer of nvidia-smi.
C14_DottedEqualsPlain ==
    (pc # "idle" /\ C14_Input /\ 86 \in Reported(host.list_gpu_code))
    => pc = "builder" /\ self_compute_cap = SomeCap(86)

\* line 263: the vector build_ptx collects, the kernels that were skipped
\* left out: the positions in kernel_paths of its elements.
Dispatched == SelectSeq([i \in 1..Len(children) |-> i], LAMBDA i : children[i].some)

\* C16: the kernels build_ptx dispatched are collected in the order of
\* kernel_paths, and when processes exited non-zero the run panics with the
\* message of the failing kernel that comes first in kernel_paths, also when
\* a later kernel's process failed before the earlier kernel's closure had
\* returned.
C16_FirstFailureInOrder ==
    /\ \A a, b \in 1..Len(Dispatched) : a < b => Dispatched[a] < Dispatched[b]
    /\ (pc = "panicked" /\ Failed # {} /\ \A i \in Units : closure[i] # "panicked")
          => \E m \in Failed :
                /\ \A j \in Failed : m <= j
                /\ panicLog = <<PtxMessage(kernel_paths[m], children[m])>>

C16_Witness ==
    /\ pc = "panicked"
    /\ overtaken
    /\ Len(kernel_paths) = 2
    /\ Failed = {1, 2}
    /\ children[1].stderr # children[2].stderr
    /\ \A i \in Units : closure[i] = "done"

\* The messages a build raises when the Builder lacks a field.
BuildPanics ==
    {CouldNotFindCuda, <<"Could not find compute_cap">>, <<"Failed to get compute_cap">>}

\* The run has left the configuration of its Builder behind.
Left == pc \notin {"idle", "builder", "configured"}

\* Nothing was compiled, staged or archived in this run.
NothingDone ==
    /\ \A i \in Units : spawnCount[i] = 0
    /\ staged = {}
    /\ archSpawned = 0
    /\ \A p \in Files \ KernelFiles : mtime[p] = 0

\* C17 as stated: in build_ptx and in build_lib, a run whose Builder has no
\* CUDA directory or no compute capability ends in a panic and has spawned
\* no compiler and staged no include file.
C17_ConfigErrorsFatal ==
    (Left /\ (~cuda_root.some \/ ~self_compute_cap.some))
    => pc = "panicked" /\ NothingDone

\* C17 as amended: a compute capability that cannot be resolved or that nvcc
\* does not support makes Builder::default panic, so that no build is
\* started; a Builder without CUDA directory makes build_ptx panic before it
\* stages an include file or spawns a compiler.  (build_lib does not look at
\* the CUDA directory.)
C17_ConfigErrorsFatalWhereChecked ==
    /\ (Left /\ ~self_compute_cap.some)
          => pc = "panicked" /\ NothingDone /\ closure = <<>> /\ builders = 0
    /\ pc \in {"ptx_par", "built"} => cuda_root.some /\ self_compute_cap.some
    /\ (pc = "panicked" /\ panicLog = <<CouldNotFindCuda>>)
          => ~cuda_root.some /\ NothingDone /\ closure = <<>>
    /\ (Left /\ ~cuda_root.some /\ pc # "panicked")
          => pc \in {"lib_par", "lib_link", "lib_done"}

C17_Witness ==
    /\ pc = "panicked"
    /\ panicLog = <<CouldNotFindCuda>>
    /\ include_paths = <<HeaderA, HeaderB, HeaderC>>
    /\ kernel_paths = <<FlashAttention, Attention>>
    /\ Len(extra_args) = 1

\* The -I options of the include lists of the model, spelled out.
ExpectedIncludeOptions ==
    IF include_paths = <<>> THEN <<>>
    ELSE IF include_paths = <<HeaderA>> THEN << <<"-I">> \o <<"s","r","c">> >>
    ELSE << <<"-I">> \o <<"i","n","c">>, <<"-I">> \o <<"s","r","c">> >>

\* The arguments a of the command spawned for kernel p carry the
\* configuration.
Carries(a, p) ==
    /\ a[1] = <<"--gpu-architecture=sm_", "8", "6">>
    /\ a[Len(a)] = p
    /\ Contains(a, extra_args)
    /\ Contains(a, ExpectedIncludeOptions)
    /\ Cardinality({k \in 1..Len(a) : a[k][1] = "-I"}) = Len(ExpectedIncludeOptions)
    /\ IF host.NVCC_CCBIN.set
       THEN Contains(a, << <<"-allow-unsupported-compiler">>, <<"-ccbin">>, CcbinPath >>)
       ELSE \A k \in 1..Len(a) :
               a[k] \notin {<<"-allow-unsupported-compiler">>, <<"-ccbin">>}

\* C18: every nvcc compile command, of build_ptx and of build_lib, has the
\* architecture flag, one -I option per directory of the configured include
\* files (sorted, each directory once), the extra arguments in the order of
\* the arg() calls, -allow-unsupported-compiler and -ccbin with its path
\* exactly when NVCC_CCBIN is set, and the kernel's path as its last argument.
C18_CommandCarriesConfiguration ==
    \A i \in DOMAIN argv : argv[i] # <<>> => Carries(argv[i], kernel_paths[i])

\* A step in which a Builder::default call of a process that has a Builder
\* already makes the process panic.
DefaultFails ==
    /\ builders >= 1
    /\ pc \in {"builder", "configured", "built", "lib_done"}
    /\ pc' = "panicked"
    /\ panicLog'[Len(panicLog')] \notin BuildPanics

\* C19 as stated: once a process has a Builder, every further
\* Builder::default call panics at the initialisation of the global pool,
\* whatever the environment, and the size of the pool does not change.
C19_SecondDefaultFailsAtPool ==
    /\ [](builders <= 1)
    /\ [][DefaultFails => panicLog' = Append(panicLog, GlobalPoolAlreadyInitialized)]_vars
    /\ [][pool # 0 => pool' = pool]_vars

\* C19 as amended: once a process has a Builder, every further
\* Builder::default call panics, at the initialisation of the global pool
\* or, when RAYON_NUM_THREADS is no number, before it where the variable is
\* parsed; no second Builder is returned and the size of the pool does not
\* change.
C19_SecondDefaultFails ==
    /\ [](builders <= 1)
    /\ [][DefaultFails
            => /\ \/ panicLog' = Append(panicLog, GlobalPoolAlreadyInitialized)
                  \/ (rayon_env' = EnvInvalid /\ panicLog' = Append(panicLog, ParseIntError))
               /\ UNCHANGED <<pool, builders, kernel_paths, cuda_root, self_compute_cap>>]_vars
    /\ [][pool # 0 => pool' = pool]_vars

C19_Witness ==
    /\ pc = "panicked"
    /\ builders = 1
    /\ pool = PhysicalCores
    /\ rayon_env = EnvUnset
    /\ panicLog = <<GlobalPoolAlreadyInitialized>>
    /\ bindings.some

=============================================================================
